---- MODULE Spec2Model ----
(***************************************************************************)
(* Coverage analysis engine of the Starlink/Taipei analyser.               *)
(*                                                                         *)
(*   process_time_point_worker   src/satellite_analysis.py:40-114          *)
(*   StarlinkAnalysis.analyze_coverage   src/satellite_analysis.py:407-487 *)
(*   StarlinkAnalysis.calculate_stats    src/satellite_analysis.py:488-527 *)
(*   start_analysis, run_analysis_thread src/app/api/routes.py:63-161      *)
(*   StarlinkAnalysis.download_tle_data  src/satellite_analysis.py:215-373 *)
(*                       src/app/services/analysis_service.py:200-353      *)
(*   the child process   src/app/services/r_integration.py:142-218         *)
(*                                                                         *)
(* Time is counted in ticks, TicksPerSecond ticks to the second, so that   *)
(* an interval shorter than the one-second resolution of the timestamp     *)
(* format can be expressed.  A satellite name is a positive integer; the   *)
(* orbital element set of a satellite is abstracted to the elevation track *)
(* its propagation yields (elevation at second 0 and rate per second),     *)
(* whether EarthSatellite accepts its two lines and whether propagating it *)
(* raises.                                                                 *)
(*                                                                         *)
(* app/services/analysis_service.py holds the same worker (88-166) and the *)
(* same control flow in analyze_24h_coverage (355-524): pool, as_completed *)
(* loop with an inner except, sort, outer except that resets results and   *)
(* sets num_cpus to 1, sequential loop, DataFrame sorted by timestamp.     *)
(***************************************************************************)
EXTENDS Integers, Sequences, FiniteSets, TLC

VARIABLES
    raw_tle_data,               \* self.raw_tle_data: list of element sets
    satellites,                 \* self.satellites: names of the loaded satellites
    interval_minutes,           \* argument, in ticks
    analysis_duration_minutes,  \* argument, in ticks
    start_time_dt,              \* datetime.now(utc), in ticks
    degree,                     \* num_cpus as passed by the caller
    min_elevation_threshold,    \* argument
    worker_fault,               \* grid indices at which the worker call raises
    observer,                   \* self.observer
    dl_pc,                      \* position inside download_tle_data
    variant,                    \* which download_tle_data: "script" or "service"
    force_update,               \* argument of the script's download_tle_data
    source,                     \* index of source_url in tle_sources
    attempt,                    \* attempt on that source, from 1
    n_requests,                 \* requests.get calls made so far
    local_file,                 \* starlink_latest.tle: <<>> or <<its text>>
    pc,                         \* position inside analyze_coverage
    num_cpus,                   \* local num_cpus (set to 1 by the fallback)
    time_data_tuples,           \* list(zip(time_points_skyfield, time_points_dt))
    futures,                    \* state of each submitted future
    collected,                  \* futures already taken from as_completed
    results,                    \* local list results
    seq_i,                      \* index of the sequential loop
    series,                     \* the returned DataFrame, row by row
    pool_event,                 \* what went wrong with the pool, if anything
    fallbacks,                  \* executions of the except block 451-455
    discarded,                  \* results thrown away by that except block
    exception,                  \* exception analyze_coverage raised to its caller
    stats,                      \* what calculate_stats returned, <<>> before the call
    analysis_status,            \* routes.analysis_status
    requests,                   \* the POST /start_analysis requests
    threads                     \* the run_analysis_thread threads

vars == <<raw_tle_data, satellites, interval_minutes, analysis_duration_minutes,
          start_time_dt, degree, min_elevation_threshold, worker_fault, pc,
          num_cpus, time_data_tuples, futures, collected, results, seq_i,
          series, pool_event, fallbacks, discarded, exception, stats,
          analysis_status, requests, threads, observer, dl_pc, variant,
          force_update, source, attempt, n_requests, local_file>>

acquisition == <<dl_pc, variant, force_update, source, attempt, n_requests, local_file>>

web == <<analysis_status, requests, threads>>

inputs == <<raw_tle_data, satellites, interval_minutes, analysis_duration_minutes,
            start_time_dt, degree, min_elevation_threshold, worker_fault,
            observer>>

(***************************************************************************)
(* Bounds of the model and constants of the program.                       *)
(***************************************************************************)
TicksPerSecond == 2

MaxCatalog == 2

MaxWorkerCatalog == 3

MaxDuration == 4

MaxFaults == 1

DefaultThreshold == 25

SentinelElevation == -90

NoSatellite == 0

(***************************************************************************)
(* Time grid.                                                              *)
(***************************************************************************)
\* strftime('%Y-%m-%d %H:%M:%S') and ts.utc(..., t.second): the sub-second
\* part of the instant is dropped.
Second(t) == t \div TicksPerSecond

\* pd.to_datetime of a formatted timestamp: the instant at the whole second.
ToDatetime(stamp) == stamp * TicksPerSecond

\* the count of compute_visibility (py/visibility.py:60), one point too many
NumTimePoints_PlusOne(duration, interval) == duration \div interval + 1

\* line 416: int(analysis_duration_minutes // interval_minutes)
NumTimePoints(duration, interval) == duration \div interval

TimePointsDt(start, interval, n) == [i \in 1..n |-> start + (i - 1) * interval]

TimeData(t) == <<Second(t), t>>

TimeDataTuples(start, interval, duration) ==
    LET dt == TimePointsDt(start, interval, NumTimePoints(duration, interval))
    IN  [i \in 1..Len(dt) |-> TimeData(dt[i])]

(***************************************************************************)
(* process_time_point_worker.                                              *)
(***************************************************************************)
Constructible(tle) == tle.line_ok

\* the loop of lines 54-61 left at the first element set that fails
WorkerSatsList_StopAtFailure(tles) ==
    LET bad == {i \in DOMAIN tles : ~Constructible(tles[i])}
    IN  IF bad = {} THEN tles
        ELSE SubSeq(tles, 1, (CHOOSE i \in bad : \A j \in bad : i <= j) - 1)

\* lines 52-63: an element set that fails is skipped (continue)
WorkerSatsList(tles) == SelectSeq(tles, Constructible)

Propagates(sat, t_skyfield) == ~sat.diverges

Altitude(sat, t_skyfield) == sat.e0 + sat.rate * t_skyfield

Distance(sat, t_skyfield) == 550 + 10 * (90 - Altitude(sat, t_skyfield))

\* the comparison of line 76 made inclusive
AboveThreshold_Inclusive(alt, threshold) == alt >= threshold

AboveThreshold(alt, threshold) == alt > threshold

VisibleRecord(sat, t_skyfield, time_point_datetime) ==
    [name        |-> sat.name,
     distance_km |-> Distance(sat, t_skyfield),
     elevation   |-> Altitude(sat, t_skyfield),
     timestamp   |-> Second(time_point_datetime)]

RECURSIVE VisibleSatellites(_, _, _, _)
VisibleSatellites(sats, t_skyfield, time_point_datetime, threshold) ==
    IF sats = <<>> THEN <<>>
    ELSE LET sat  == Head(sats)
             rest == VisibleSatellites(Tail(sats), t_skyfield,
                                       time_point_datetime, threshold)
         IN  IF Propagates(sat, t_skyfield)
                /\ AboveThreshold(Altitude(sat, t_skyfield), threshold)
             THEN <<VisibleRecord(sat, t_skyfield, time_point_datetime)>> \o rest
             ELSE rest

Higher(elevation, max_elevation) == elevation > max_elevation

\* The scan of lines 93-97; best is <<>> for None and <<sat_info>> otherwise.
RECURSIVE BestSatelliteInfo(_, _, _)
BestSatelliteInfo(visible, max_elevation, best) ==
    IF visible = <<>> THEN best
    ELSE LET sat_info == Head(visible)
         IN  IF Higher(sat_info.elevation, max_elevation)
             THEN BestSatelliteInfo(Tail(visible), sat_info.elevation, <<sat_info>>)
             ELSE BestSatelliteInfo(Tail(visible), max_elevation, best)

\* the count taken over the records above the default threshold instead of
\* over the list that was built
VisibleCount_DefaultThreshold(visible) ==
    Len(SelectSeq(visible, LAMBDA r : r.elevation > DefaultThreshold))

VisibleCount(visible) == Len(visible)

process_time_point_worker(time_data_tuple, worker_tle_list_of_tuples, threshold) ==
    LET t_skyfield == time_data_tuple[1]
        time_point_datetime == time_data_tuple[2]
        visible == VisibleSatellites(WorkerSatsList(worker_tle_list_of_tuples),
                                     t_skyfield, time_point_datetime, threshold)
        best == BestSatelliteInfo(visible, SentinelElevation, <<>>)
    IN  [timestamp          |-> Second(time_point_datetime),
         visible_count      |-> VisibleCount(visible),
         visible_satellites |-> visible,
         elevation          |-> IF best # <<>> THEN best[1].elevation ELSE 0,
         best_satellite     |-> IF best # <<>> THEN best[1].name ELSE NoSatellite,
         distance_km        |-> IF best # <<>> THEN best[1].distance_km ELSE 0]

(***************************************************************************)
(* Sorting and the DataFrame.                                              *)
(***************************************************************************)
RECURSIVE InsertByTimestamp(_, _)
InsertByTimestamp(r, sorted) ==
    IF sorted = <<>> THEN <<r>>
    ELSE LET last == sorted[Len(sorted)]
         IN  IF last.timestamp <= r.timestamp
             THEN Append(sorted, r)
             ELSE Append(InsertByTimestamp(r, SubSeq(sorted, 1, Len(sorted) - 1)), last)

\* results.sort(key=timestamp) and DataFrame.sort_values(by='timestamp').
RECURSIVE SortByTimestamp(_)
SortByTimestamp(rs) ==
    IF rs = <<>> THEN <<>>
    ELSE InsertByTimestamp(rs[Len(rs)], SortByTimestamp(SubSeq(rs, 1, Len(rs) - 1)))

CoverageDf(rs) ==
    IF rs = <<>> THEN <<>>
    ELSE SortByTimestamp([i \in 1..Len(rs) |->
                            [rs[i] EXCEPT !.timestamp = ToDatetime(@)]])

(***************************************************************************)
(* calculate_stats.  A float is a fraction num/den; rounding is not        *)
(* modelled.                                                               *)
(***************************************************************************)
Rat(n, d) == [num |-> n, den |-> d]

RatEq(a, b) == a.num * b.den = b.num * a.den

RECURSIVE SumSeq(_)
SumSeq(xs) == IF xs = <<>> THEN 0 ELSE Head(xs) + SumSeq(Tail(xs))

MaxSeq(xs) == CHOOSE m \in {xs[i] : i \in DOMAIN xs} : \A i \in DOMAIN xs : xs[i] <= m

MinSeq(xs) == CHOOSE m \in {xs[i] : i \in DOMAIN xs} : \A i \in DOMAIN xs : m <= xs[i]

\* Series.mean()
Mean(xs) == Rat(SumSeq(xs), Len(xs))

\* line 491: 'visible_count' in coverage_df.columns; pd.DataFrame() has none
HasColumns(coverage_df) == coverage_df # <<>>

\* the comparison of line 500 asking for more than one satellite
Covered_MoreThanOne(count) == count > 1

\* line 500: coverage_df[count_column] > 0
Covered(count) == count > 0

\* the except block letting the error out
StatsOnError_Reraise ==
    [raised |-> TRUE,
     avg_visible_satellites |-> Rat(0, 1), max_visible_satellites |-> 0,
     min_visible_satellites |-> 0, coverage_percentage |-> Rat(0, 1),
     avg_elevation |-> Rat(0, 1), max_elevation |-> 0,
     analysis_duration_minutes |-> 0]

\* lines 514-527: the dictionary the except block returns
StatsOnError ==
    [raised |-> FALSE,
     avg_visible_satellites |-> Rat(0, 1), max_visible_satellites |-> 0,
     min_visible_satellites |-> 0, coverage_percentage |-> Rat(0, 1),
     avg_elevation |-> Rat(0, 1), max_elevation |-> 0,
     analysis_duration_minutes |-> 0]

\* lines 488-527
calculate_stats(coverage_df) ==
    IF ~HasColumns(coverage_df)
    THEN StatsOnError
    ELSE LET counts  == [i \in DOMAIN coverage_df |-> coverage_df[i].visible_count]
             covered == [i \in DOMAIN coverage_df |->
                           IF Covered(counts[i]) THEN 1 ELSE 0]
             elevs   == [i \in DOMAIN coverage_df |-> coverage_df[i].elevation]
             share   == Mean(covered)
         IN  [raised |-> FALSE,
              avg_visible_satellites |-> Mean(counts),
              max_visible_satellites |-> MaxSeq(counts),
              min_visible_satellites |-> MinSeq(counts),
              coverage_percentage |-> Rat(share.num * 100, share.den),
              avg_elevation |-> Mean(elevs),
              max_elevation |-> MaxSeq(elevs),
              analysis_duration_minutes |-> Len(coverage_df)]

(***************************************************************************)
(* Catalogs the model draws its inputs from.                               *)
(***************************************************************************)
Track(ok, e0, rate, div) == [line_ok |-> ok, e0 |-> e0, rate |-> rate, diverges |-> div]

MkTle(k, track) ==
    [name |-> k, line_ok |-> track.line_ok, e0 |-> track.e0,
     rate |-> track.rate, diverges |-> track.diverges]

Catalogs(maxLen, tracks) ==
    UNION {{[k \in 1..n |-> MkTle(k, f[k])] : f \in [1..n -> tracks]} : n \in 0..maxLen}

\* a satellite that rises through the default threshold, and one that stays high
SchedulerTracks == {Track(TRUE, 24, 2, FALSE), Track(TRUE, 40, 0, FALSE)}

WorkerTracks ==
    {Track(FALSE, 40, 0, FALSE), Track(TRUE, 40, 0, TRUE)}
    \cup {Track(TRUE, e, 0, FALSE) : e \in {-90, 25, 26, 40}}

NamesOf(tles) == [k \in 1..Len(tles) |-> tles[k].name]

Faults(n) == {F \in SUBSET (1..n) : Cardinality(F) <= MaxFaults}

(***************************************************************************)
(* analyze_coverage.                                                       *)
(***************************************************************************)
\* lines 35-37 and 129: wgs84.latlon(TAIPEI_LAT, TAIPEI_LON, ELEVATION), in
\* whole degrees and metres
TaipeiObserver == [lat |-> 25, lon |-> 121, elevation_m |-> 10]

\* download_tle_data is not under way
NoDownload ==
    /\ dl_pc = "idle"
    /\ variant = "script"
    /\ force_update = FALSE
    /\ source = 1
    /\ attempt = 1
    /\ n_requests = 0
    /\ local_file = <<>>

Idle ==
    /\ observer = TaipeiObserver
    /\ pc = "idle"
    /\ num_cpus = degree
    /\ time_data_tuples = <<>>
    /\ futures = <<>>
    /\ collected = {}
    /\ results = <<>>
    /\ seq_i = 0
    /\ series = <<>>
    /\ pool_event = "none"
    /\ fallbacks = 0
    /\ discarded = 0
    /\ exception = "none"
    /\ stats = <<>>

(***************************************************************************)
(* app/api/routes.py: POST /start_analysis and run_analysis_thread.        *)
(* The texts of the responses and of analysis_status["message"] are named  *)
(* by the line that holds them.                                            *)
(***************************************************************************)
MaxRequests == 2

\* lines of the child's output the thread is followed through
MaxLines == 7

\* room of the stderr pipe, in writes of the child
PipeCapacity == 1

DefaultDuration == 30
MinDuration == 5
MaxDurationMinutes == 240

MsgAlreadyRunning == "analysis already running"     \* line 148
MsgInvalidDuration == "invalid analysis time"        \* line 156
MsgDurationRange == "analysis time must be 5 to 240" \* line 154
MsgStarted == "analysis started"                     \* line 161

\* JSON values of the key 'duration': a number, a string that is no number,
\* null, or no key at all
Durations ==
    {[kind |-> "int", value |-> v] :
        v \in {MinDuration - 1, MinDuration, MaxDurationMinutes, MaxDurationMinutes + 1}}
    \cup {[kind |-> k, value |-> 0] : k \in {"text", "null", "missing"}}

\* line 150: request.json.get('duration', 30)
GetDuration(d) ==
    IF d.kind = "missing" THEN [kind |-> "int", value |-> DefaultDuration] ELSE d

\* line 152: int(duration); int('abc') raises ValueError, int(None) TypeError
IntOf(d) ==
    CASE d.kind = "int"  -> [raises |-> "none", value |-> d.value]
      [] d.kind = "text" -> [raises |-> "ValueError", value |-> 0]
      [] d.kind = "null" -> [raises |-> "TypeError", value |-> 0]

\* line 153
OutOfRange(v) == v < MinDuration \/ v > MaxDurationMinutes

\* lines 11-19
InitialStatus ==
    [running |-> FALSE, progress |-> 0, message |-> "not started",
     last_run_time |-> 0, last_run_success |-> TRUE, error_message |-> "",
     output_files |-> <<>>]

NoRequest ==
    [state |-> "new", duration |-> [kind |-> "missing", value |-> 0],
     saw_running |-> FALSE, code |-> 0, message |-> ""]

\* pc: position in run_analysis_thread; lines: lines read from the child's
\* stdout; path: the way the child runs; stderr: writes of the child waiting
\* in the stderr pipe; blocked: the child waits for room in that pipe
NoThread ==
    [pc |-> "none", lines |-> 0, path |-> "none", stderr |-> 0, blocked |-> FALSE,
     outcome |-> "none"]

WebIdle ==
    /\ analysis_status = InitialStatus
    /\ requests = [r \in 1..MaxRequests |-> NoRequest]
    /\ threads = [t \in 1..MaxRequests |-> NoThread]

Init ==
    /\ raw_tle_data \in Catalogs(MaxCatalog, SchedulerTracks)
    /\ satellites = NamesOf(raw_tle_data)
    /\ interval_minutes \in {-1, 0, 1, TicksPerSecond}
    /\ analysis_duration_minutes \in -1..MaxDuration
    /\ start_time_dt \in {0, 1}
    /\ degree \in -1..2
    /\ min_elevation_threshold = DefaultThreshold
    /\ worker_fault \in Faults(IF interval_minutes = 0 THEN 0
                               ELSE NumTimePoints(analysis_duration_minutes,
                                                  interval_minutes))
    /\ Idle
    /\ WebIdle
    /\ NoDownload

InitWorker ==
    /\ raw_tle_data \in Catalogs(MaxWorkerCatalog, WorkerTracks)
    /\ satellites = NamesOf(raw_tle_data)
    /\ interval_minutes = TicksPerSecond
    /\ analysis_duration_minutes = TicksPerSecond
    /\ start_time_dt = 0
    /\ degree \in 1..2
    /\ min_elevation_threshold \in {SentinelElevation - 1, SentinelElevation, DefaultThreshold}
    /\ worker_fault = {}
    /\ Idle
    /\ WebIdle
    /\ NoDownload

\* the guard of line 409 left out
CatalogEmpty_Never(sats) == FALSE

\* line 409: not self.satellites
CatalogEmpty(sats) == sats = <<>>

\* lines 409-430; the floor division of line 416 raises ZeroDivisionError
\* for a zero interval, outside any try
Begin ==
    /\ pc = "idle"
    /\ IF CatalogEmpty(satellites)
       THEN /\ pc' = "done"
            /\ UNCHANGED <<time_data_tuples, exception>>
       ELSE IF interval_minutes = 0
       THEN /\ pc' = "raised"
            /\ exception' = "ZeroDivisionError"
            /\ UNCHANGED time_data_tuples
       ELSE /\ time_data_tuples' = TimeDataTuples(start_time_dt, interval_minutes,
                                                  analysis_duration_minutes)
            /\ pc' = IF num_cpus > 1 THEN "parallel" ELSE "single"
            /\ UNCHANGED exception
    /\ results' = <<>>
    /\ series' = <<>>
    /\ UNCHANGED <<inputs, stats, web, acquisition, num_cpus, futures, collected, seq_i, pool_event,
                   fallbacks, discarded>>

\* the except block without line 454
DiscardPartial_Keep(rs) == rs

\* line 454: results = []
DiscardPartial(rs) == <<>>

\* lines 451-455: the except block of the parallel attempt
Fallback(event) ==
    /\ results' = DiscardPartial(results)
    /\ num_cpus' = 1
    /\ pc' = "single"
    /\ pool_event' = event
    /\ fallbacks' = fallbacks + 1
    /\ discarded' = Len(results)
    /\ UNCHANGED <<inputs, exception, stats, web, acquisition, time_data_tuples, futures, collected, seq_i, series>>

\* line 432: ProcessPoolExecutor(max_workers=num_cpus)
CreatePool ==
    /\ pc = "parallel"
    /\ pc' = "submit"
    /\ UNCHANGED <<inputs, exception, stats, web, acquisition, num_cpus, time_data_tuples, futures, collected, results,
                   seq_i, series, pool_event, fallbacks, discarded>>

CreatePoolRaises ==
    /\ pc = "parallel"
    /\ Fallback("init_failed")

\* lines 433-441
SubmitTasks ==
    /\ pc = "submit"
    /\ futures' = [i \in 1..Len(time_data_tuples) |-> "pending"]
    /\ pc' = "collect"
    /\ UNCHANGED <<inputs, exception, stats, web, acquisition, num_cpus, time_data_tuples, collected, results, seq_i,
                   series, pool_event, fallbacks, discarded>>

SubmitRaises ==
    /\ pc = "submit"
    /\ Fallback("submit_failed")

\* a task that would raise never finishes
TaskCompletes_Hangs(i) ==
    /\ pc = "collect"
    /\ futures[i] = "pending"
    /\ i \notin worker_fault
    /\ futures' = [futures EXCEPT ![i] = "returned"]
    /\ UNCHANGED <<inputs, exception, stats, web, acquisition, pc, num_cpus, time_data_tuples, collected, results, seq_i,
                   series, pool_event, fallbacks, discarded>>

\* a worker process finishes one task
TaskCompletes(i) ==
    /\ pc = "collect"
    /\ futures[i] = "pending"
    /\ futures' = [futures EXCEPT ![i] = IF i \in worker_fault THEN "raised" ELSE "returned"]
    /\ UNCHANGED <<inputs, exception, stats, web, acquisition, pc, num_cpus, time_data_tuples, collected, results, seq_i,
                   series, pool_event, fallbacks, discarded>>

\* the worker processes die: every pending future gets BrokenProcessPool
WorkersDie ==
    /\ pc = "collect"
    /\ pool_event = "none"
    /\ \E i \in DOMAIN futures : futures[i] = "pending"
    /\ futures' = [i \in DOMAIN futures |->
                     IF futures[i] = "pending" THEN "raised" ELSE futures[i]]
    /\ pool_event' = "workers_died"
    /\ UNCHANGED <<inputs, exception, stats, web, acquisition, pc, num_cpus, time_data_tuples, collected, results, seq_i,
                   series, fallbacks, discarded>>

\* lines 443-447: one iteration of the as_completed loop
Collect(i) ==
    /\ pc = "collect"
    /\ i \notin collected
    /\ futures[i] # "pending"
    /\ collected' = collected \cup {i}
    /\ results' = IF futures[i] = "returned"
                  THEN Append(results, process_time_point_worker(
                                  time_data_tuples[i], raw_tle_data,
                                  min_elevation_threshold))
                  ELSE results
    /\ UNCHANGED <<inputs, exception, stats, web, acquisition, pc, num_cpus, time_data_tuples, futures, seq_i, series,
                   pool_event, fallbacks, discarded>>

\* an exception leaves the loop outside the inner try (the print of the
\* handler at 447 raising, for one); the with block waits for the tasks and
\* the except block runs
LoopRaises ==
    /\ pc = "collect"
    /\ collected # DOMAIN futures
    /\ Fallback(IF pool_event = "none" THEN "loop_aborted" ELSE pool_event)

\* the with block left while futures are still to be taken
ExitPool_NoWait ==
    /\ pc = "collect"
    /\ pc' = "sort"
    /\ UNCHANGED <<inputs, exception, stats, web, acquisition, num_cpus, time_data_tuples, futures, collected, results,
                   seq_i, series, pool_event, fallbacks, discarded>>

\* end of the with block: every future was taken, the pool shuts down
ExitPool ==
    /\ pc = "collect"
    /\ collected = DOMAIN futures
    /\ pc' = "sort"
    /\ UNCHANGED <<inputs, exception, stats, web, acquisition, num_cpus, time_data_tuples, futures, collected, results,
                   seq_i, series, pool_event, fallbacks, discarded>>

\* line 449
SortResults ==
    /\ pc = "sort"
    /\ results' = SortByTimestamp(results)
    /\ pc' = "single"
    /\ UNCHANGED <<inputs, exception, stats, web, acquisition, num_cpus, time_data_tuples, futures, collected, seq_i,
                   series, pool_event, fallbacks, discarded>>

\* line 457
SingleCheck ==
    /\ pc = "single"
    /\ pc' = IF num_cpus = 1 /\ time_data_tuples # <<>> THEN "sequential" ELSE "finish"
    /\ seq_i' = IF num_cpus = 1 THEN 1 ELSE seq_i
    /\ UNCHANGED <<inputs, exception, stats, web, acquisition, num_cpus, time_data_tuples, futures, collected, results,
                   series, pool_event, fallbacks, discarded>>

\* the worker dropping from the list it was handed the element sets it
\* could not build
CatalogAfterWorker_DropsFailed(tles) == SelectSeq(tles, Constructible)

\* lines 52-63: the sequential loop hands self.raw_tle_data itself to the
\* worker (line 463), which only iterates over it
CatalogAfterWorker(tles) == tles

\* lines 460-472: one iteration of the sequential loop
SequentialStep ==
    /\ pc = "sequential"
    /\ results' = IF seq_i \in worker_fault
                  THEN results
                  ELSE Append(results, process_time_point_worker(
                                  time_data_tuples[seq_i], raw_tle_data,
                                  min_elevation_threshold))
    /\ seq_i' = seq_i + 1
    /\ pc' = IF seq_i = Len(time_data_tuples) THEN "finish" ELSE "sequential"
    /\ raw_tle_data' = CatalogAfterWorker(raw_tle_data)
    /\ UNCHANGED <<satellites, interval_minutes, analysis_duration_minutes,
                   start_time_dt, degree, min_elevation_threshold, worker_fault,
                   observer>>
    /\ UNCHANGED <<exception, stats, web, acquisition, num_cpus, time_data_tuples, futures, collected, series,
                   pool_event, fallbacks, discarded>>

\* lines 474-487
Finish ==
    /\ pc = "finish"
    /\ series' = CoverageDf(results)
    /\ pc' = "done"
    /\ UNCHANGED <<inputs, exception, stats, web, acquisition, num_cpus, time_data_tuples, futures, collected, results,
                   seq_i, pool_event, fallbacks, discarded>>

\* a caller passes the returned frame to calculate_stats (lines 196, 488-527)
CalculateStats ==
    /\ pc = "done"
    /\ stats' = <<calculate_stats(series)>>
    /\ pc' = "stats"
    /\ UNCHANGED <<inputs, exception, web, acquisition, num_cpus, time_data_tuples, futures,
                   collected, results, seq_i, series, pool_event, fallbacks, discarded>>

Next ==
    \/ Begin
    \/ CreatePool
    \/ CreatePoolRaises
    \/ SubmitTasks
    \/ SubmitRaises
    \/ \E i \in DOMAIN futures : TaskCompletes(i)
    \/ WorkersDie
    \/ \E i \in DOMAIN futures : Collect(i)
    \/ LoopRaises
    \/ ExitPool
    \/ SortResults
    \/ SingleCheck
    \/ SequentialStep
    \/ Finish
    \/ CalculateStats

Spec == Init /\ [][Next]_vars

\* the steps of the call itself and of its tasks, as opposed to the failures
\* that may strike it
Progress ==
    \/ Begin
    \/ CreatePool
    \/ SubmitTasks
    \/ \E i \in DOMAIN futures : TaskCompletes(i)
    \/ \E i \in DOMAIN futures : Collect(i)
    \/ ExitPool
    \/ SortResults
    \/ SingleCheck
    \/ SequentialStep
    \/ Finish

\* the calls whose termination is followed: the empty catalog or a catalog
\* of one satellite, every window, degree and set of failing instants
InitTermination ==
    /\ raw_tle_data \in {<<>>, <<MkTle(1, Track(TRUE, 40, 0, FALSE))>>}
    /\ satellites = NamesOf(raw_tle_data)
    /\ interval_minutes \in {-1, 0, 1, TicksPerSecond}
    /\ analysis_duration_minutes \in -1..MaxDuration
    /\ start_time_dt = 0
    /\ degree \in -1..2
    /\ min_elevation_threshold = DefaultThreshold
    /\ worker_fault \in Faults(IF interval_minutes = 0 THEN 0
                               ELSE NumTimePoints(analysis_duration_minutes,
                                                  interval_minutes))
    /\ Idle
    /\ WebIdle
    /\ NoDownload

\* the call goes on while it can and every task comes to its end
SpecTermination == InitTermination /\ [][Next]_vars /\ WF_vars(Progress)

\* one grid instant, every catalog and threshold of the worker's input space
SpecWorker == InitWorker /\ [][Next]_vars

(***************************************************************************)
(* The web application: request handlers run concurrently with each other  *)
(* and with the analysis threads, all sharing analysis_status.  Requests   *)
(* are numbered in their order of arrival; thread t is the one started by  *)
(* request t.                                                              *)
(***************************************************************************)
engine == <<inputs, pc, num_cpus, time_data_tuples, futures, collected, results,
            seq_i, series, pool_event, fallbacks, discarded, exception, stats>>

\* the engine is not running inside the web process
InitWeb ==
    /\ raw_tle_data = <<>>
    /\ satellites = <<>>
    /\ interval_minutes = 1
    /\ analysis_duration_minutes = 1
    /\ start_time_dt = 0
    /\ degree = 1
    /\ min_elevation_threshold = DefaultThreshold
    /\ worker_fault = {}
    /\ Idle
    /\ WebIdle
    /\ NoDownload

\* what start_analysis answers, lines 147-161; an exception that the handler
\* does not catch is answered by Flask with status 500
Answer(running, d) ==
    LET duration == IntOf(GetDuration(d))
    IN  IF running
        THEN [code |-> 400, message |-> MsgAlreadyRunning, start |-> FALSE]
        ELSE IF duration.raises = "ValueError"
        THEN [code |-> 400, message |-> MsgInvalidDuration, start |-> FALSE]
        ELSE IF duration.raises = "TypeError"
        THEN [code |-> 500, message |-> "Internal Server Error", start |-> FALSE]
        ELSE IF OutOfRange(duration.value)
        THEN [code |-> 400, message |-> MsgDurationRange, start |-> FALSE]
        ELSE [code |-> 200, message |-> MsgStarted, start |-> TRUE]

\* lines 144-161
start_analysis(r, d) ==
    /\ requests[r].state = "new"
    /\ \A q \in 1..(r - 1) : requests[q].state # "new"
    /\ LET running == analysis_status.running
           answer  == Answer(running, d)
       IN  /\ requests' = [requests EXCEPT ![r] =
                              [state |-> "responded", duration |-> d,
                               saw_running |-> running, code |-> answer.code,
                               message |-> answer.message]]
           /\ threads' = IF answer.start
                         THEN [threads EXCEPT ![r].pc = "start"]
                         ELSE threads
    /\ UNCHANGED <<analysis_status, engine, acquisition>>

\* lines 65-69
Thread_Begin(t) ==
    /\ threads[t].pc = "start"
    /\ analysis_status' = [analysis_status EXCEPT !.running = TRUE,
                                                  !.progress = 0,
                                                  !.message = "preparing",
                                                  !.error_message = "",
                                                  !.output_files = <<>>]
    /\ threads' = [threads EXCEPT ![t].pc = "popen"]
    /\ UNCHANGED <<requests, engine, acquisition>>

(***************************************************************************)
(* The child, app/services/r_integration.py.  What it writes to stdout is  *)
(* a sequence of lines; number is the value of a PROGRESS line.            *)
(***************************************************************************)
Line(tag, number) == [tag |-> tag, number |-> number]

\* _print_progress: r_integration.py:142-147, analysis_service.py:185-189
PrintProgress(percentage) ==
    <<Line("PROGRESS", <<percentage>>), Line("MESSAGE", <<>>)>>

\* _print_output_file: analysis_service.py:191-194
PrintOutputFile == <<Line("OUTPUT_FILE", <<>>)>>

\* a print that is no protocol line
PrintOther == <<Line("OTHER", <<>>)>>

\* download_tle_data called by the constructor (analysis_service.py:183):
\* lines 202, 273, 284 when a catalog is obtained and 202, 350 when not
DownloadOutput(obtained) ==
    IF obtained
    THEN PrintProgress(0) \o PrintProgress(5) \o PrintOutputFile
    ELSE PrintProgress(0) \o PrintProgress(5)

\* analysis_service.py:361, 452 or 505 for a grid of one instant, 522
CoverageOutput == PrintProgress(10) \o PrintProgress(90) \o PrintProgress(95)

ChildPaths == {"r", "no_catalog"}

\* r_integration.py:155-218 and main (370-399).  When the R script fails the
\* child prints the lines of "r" up to PROGRESS 50 and goes on with those of
\* _fallback_python_analysis (279-315); that run is not told apart here.
ChildScript(path) ==
    CASE path = "r" ->
           DownloadOutput(TRUE) \o PrintProgress(5) \o CoverageOutput
           \o PrintProgress(30) \o PrintProgress(40) \o PrintProgress(50)
           \o PrintProgress(70) \o PrintProgress(80) \o PrintProgress(100)
           \o PrintOther
      [] path = "no_catalog" ->
           DownloadOutput(FALSE) \o PrintProgress(5) \o PrintProgress(0)
           \o PrintOther

\* lines 71-93; Popen raises OSError when the child cannot be created
Thread_Popen(t, created) ==
    /\ threads[t].pc = "popen"
    /\ IF created
       THEN \E path \in ChildPaths :
               threads' = [threads EXCEPT ![t].pc = "read", ![t].path = path]
       ELSE threads' = [threads EXCEPT ![t].pc = "except"]
    /\ UNCHANGED <<analysis_status, requests, engine, acquisition>>

\* the lines a child may have written
Lines ==
    UNION {{ChildScript(path)[i] : i \in DOMAIN ChildScript(path)} : path \in ChildPaths}

\* the child writes to stderr (logging, warnings); nobody reads that pipe
\* before stdout is at its end (line 112), so a write into the full pipe
\* leaves the child waiting
Child_WriteStderr(t) ==
    /\ threads[t].pc = "read"
    /\ ~threads[t].blocked
    /\ threads' = IF threads[t].stderr < PipeCapacity
                  THEN [threads EXCEPT ![t].stderr = @ + 1]
                  ELSE [threads EXCEPT ![t].blocked = TRUE]
    /\ UNCHANGED <<analysis_status, requests, engine, acquisition>>

\* lines 95-109, one line of the child's stdout
Thread_ReadLine(t, line) ==
    /\ threads[t].pc = "read"
    /\ ~threads[t].blocked
    /\ threads[t].lines < MaxLines
    /\ threads[t].lines < Len(ChildScript(threads[t].path))
    /\ line = ChildScript(threads[t].path)[threads[t].lines + 1]
    /\ threads' = [threads EXCEPT ![t].lines = @ + 1]
    /\ analysis_status' =
         CASE line.tag = "PROGRESS" /\ line.number # <<>> ->
                [analysis_status EXCEPT !.progress = line.number[1],
                                        !.message = "analysing"]
           [] line.tag = "MESSAGE" ->
                [analysis_status EXCEPT !.message = "child message"]
           [] line.tag = "OUTPUT_FILE" ->
                [analysis_status EXCEPT !.output_files = Append(@, "file")]
           [] OTHER -> analysis_status
    /\ UNCHANGED <<requests, engine, acquisition>>

\* lines 111-133: end of the child's output, its return code and stderr
Thread_Wait(t, return_code, stderr_output) ==
    /\ threads[t].pc = "read"
    /\ ~threads[t].blocked
    /\ (stderr_output = "") <=> (threads[t].stderr = 0)
    /\ threads' = [threads EXCEPT ![t].pc = "finally",
                                  ![t].outcome = IF return_code = 0 THEN "exit 0"
                                                 ELSE "exit non-zero"]
    /\ analysis_status' =
         IF return_code = 0
         THEN [analysis_status EXCEPT
                 !.message = "complete", !.progress = 100,
                 !.last_run_success = TRUE,
                 !.output_files = IF @ = <<>> THEN <<"default files">> ELSE @]
         ELSE [analysis_status EXCEPT
                 !.message = "failed", !.last_run_success = FALSE,
                 !.error_message = IF stderr_output = "" THEN "unknown error"
                                   ELSE stderr_output]
    /\ UNCHANGED <<requests, engine, acquisition>>

\* lines 135-139
Thread_Except(t) ==
    /\ threads[t].pc = "except"
    /\ threads' = [threads EXCEPT ![t].pc = "finally", ![t].outcome = "raised"]
    /\ analysis_status' = [analysis_status EXCEPT !.message = "execution error",
                                                  !.last_run_success = FALSE,
                                                  !.error_message = "str(e)"]
    /\ UNCHANGED <<requests, engine, acquisition>>

\* lines 140-142
Thread_Finally(t) ==
    /\ threads[t].pc = "finally"
    /\ threads' = [threads EXCEPT ![t].pc = "ended"]
    /\ analysis_status' = [analysis_status EXCEPT !.running = FALSE,
                                                  !.last_run_time = 1]
    /\ UNCHANGED <<requests, engine, acquisition>>

NextWeb ==
    \/ \E r \in 1..MaxRequests, d \in Durations : start_analysis(r, d)
    \/ \E t \in 1..MaxRequests : Thread_Begin(t)
    \/ \E t \in 1..MaxRequests, created \in BOOLEAN : Thread_Popen(t, created)
    \/ \E t \in 1..MaxRequests : Child_WriteStderr(t)
    \/ \E t \in 1..MaxRequests, line \in Lines : Thread_ReadLine(t, line)
    \/ \E t \in 1..MaxRequests, return_code \in {0, 1}, stderr_output \in {"", "stderr"} :
          Thread_Wait(t, return_code, stderr_output)
    \/ \E t \in 1..MaxRequests : Thread_Except(t)
    \/ \E t \in 1..MaxRequests : Thread_Finally(t)

SpecWeb == InitWeb /\ [][NextWeb]_vars

\* every thread that can take a step takes it, and a child that is not
\* waiting for room in a pipe comes to its end
FairWeb ==
    \A t \in 1..MaxRequests :
        /\ WF_vars(Thread_Begin(t))
        /\ WF_vars(\E created \in BOOLEAN : Thread_Popen(t, created))
        /\ WF_vars(\E return_code \in {0, 1}, stderr_output \in {"", "stderr"} :
                      Thread_Wait(t, return_code, stderr_output))
        /\ WF_vars(Thread_Except(t))
        /\ WF_vars(Thread_Finally(t))

\* one request and the run it starts, followed on its own
NextRun ==
    \/ \E d \in Durations : start_analysis(1, d)
    \/ Thread_Begin(1)
    \/ \E created \in BOOLEAN : Thread_Popen(1, created)
    \/ Child_WriteStderr(1)
    \/ \E line \in Lines : Thread_ReadLine(1, line)
    \/ \E return_code \in {0, 1}, stderr_output \in {"", "stderr"} :
          Thread_Wait(1, return_code, stderr_output)
    \/ Thread_Except(1)
    \/ Thread_Finally(1)

SpecRun == InitWeb /\ [][NextRun]_vars

SpecRunFair == InitWeb /\ [][NextRun]_vars /\ FairWeb

(***************************************************************************)
(* download_tle_data: satellite_analysis.py:215-373 ("script") and         *)
(* app/services/analysis_service.py:200-353 ("service").  A text is the    *)
(* sequence of the three-line groups of a response or of the local file;   *)
(* a group is complete when none of its three lines is empty, and its      *)
(* track tells whether EarthSatellite accepts its two lines.               *)
(***************************************************************************)
MinSatellites == 100
NumSources == 3
MaxRetries == 3

\* range(max_retries) in the service (line 224); the script tries each
\* source once (lines 266-323)
Retries(v) == IF v = "service" THEN MaxRetries ELSE 1

Group(name, complete, ok) ==
    [name |-> name, complete |-> complete, track |-> Track(ok, 40, 0, FALSE)]

GoodGroups(n) == [i \in 1..n |-> Group(i, TRUE, TRUE)]

\* nothing, an incomplete group or a group EarthSatellite rejects, in front
\* of the good groups
BadPrefixes == {<<>>, <<Group(1000, FALSE, TRUE)>>, <<Group(1001, TRUE, FALSE)>>}

Texts ==
    {<<>>} \cup {pre \o GoodGroups(n) :
                   pre \in BadPrefixes, n \in {MinSatellites - 1, MinSatellites}}

\* <<>>: the request raised or was not answered with status 200
Responses == {<<>>} \cup {<<text>> : text \in Texts}

Files == {<<>>} \cup {<<text>> : text \in Texts}

\* len(tle_data_text) < 3
TooShort(text) == text = <<>>

\* the groups for which both appends of the parse loop run
ParsedGroups(text) ==
    SelectSeq(text, LAMBDA g : g.complete /\ Constructible(g.track))

\* temp_satellites
TempSatellites(text) ==
    LET parsed == ParsedGroups(text)
    IN  [i \in DOMAIN parsed |-> parsed[i].name]

\* temp_raw_tle
TempRawTle(text) ==
    LET parsed == ParsedGroups(text)
    IN  [i \in DOMAIN parsed |-> MkTle(parsed[i].name, parsed[i].track)]

\* the test on the count accepting any non-empty catalog
EnoughSatellites_Any(temp_satellites) == Len(temp_satellites) >= 1

\* len(temp_satellites) >= 100
EnoughSatellites(temp_satellites) == Len(temp_satellites) >= MinSatellites

Usable(text) == ~TooShort(text) /\ EnoughSatellites(TempSatellites(text))

\* what the download does not touch
call == <<interval_minutes, analysis_duration_minutes, start_time_dt, degree,
          min_elevation_threshold, worker_fault, observer, pc, num_cpus,
          time_data_tuples, futures, collected, results, seq_i, series,
          pool_event, fallbacks, discarded, exception, stats, web>>

\* the constructor has run: both lists are empty
InitDownload ==
    /\ raw_tle_data = <<>>
    /\ satellites = <<>>
    /\ interval_minutes = 1
    /\ analysis_duration_minutes = 1
    /\ start_time_dt = 0
    /\ degree = 1
    /\ min_elevation_threshold = DefaultThreshold
    /\ worker_fault = {}
    /\ Idle
    /\ WebIdle
    /\ dl_pc = "idle"
    /\ variant \in {"script", "service"}
    /\ force_update \in (IF variant = "script" THEN BOOLEAN ELSE {FALSE})
    /\ source = 1
    /\ attempt = 1
    /\ n_requests = 0
    /\ local_file \in Files

\* script 217-267 (the local file is used when it is there, update is not
\* forced and it holds enough satellites; reading it is outside any try);
\* service 202-219
DownloadBegin(readable) ==
    /\ dl_pc = "idle"
    /\ IF variant = "script" /\ local_file # <<>> /\ ~force_update
       THEN IF ~readable
            THEN /\ dl_pc' = "raised"
                 /\ UNCHANGED <<satellites, raw_tle_data>>
            ELSE IF EnoughSatellites(TempSatellites(local_file[1]))
            THEN /\ satellites' = TempSatellites(local_file[1])
                 /\ raw_tle_data' = TempRawTle(local_file[1])
                 /\ dl_pc' = "returned"
            ELSE /\ satellites' = <<>>
                 /\ raw_tle_data' = <<>>
                 /\ dl_pc' = "network"
       ELSE /\ satellites' = <<>>
            /\ raw_tle_data' = <<>>
            /\ dl_pc' = "network"
    /\ UNCHANGED <<call, variant, force_update, source, attempt, n_requests, local_file>>

\* one pass of the loop body: script 268-323, service 225-293.  The lists are
\* assigned before the text is saved, and saving is inside the try.
Attempt(response, saved) ==
    /\ dl_pc = "network"
    /\ n_requests' = n_requests + 1
    /\ LET parses == response # <<>> /\ Usable(response[1])
           done   == parses /\ saved
           last   == attempt = Retries(variant)
       IN  /\ IF parses
              THEN /\ satellites' = TempSatellites(response[1])
                   /\ raw_tle_data' = TempRawTle(response[1])
              ELSE UNCHANGED <<satellites, raw_tle_data>>
           /\ local_file' = IF done THEN response ELSE local_file
           /\ dl_pc' = IF done THEN "returned"
                       ELSE IF last /\ source = NumSources THEN "local"
                       ELSE "network"
           /\ attempt' = IF done THEN attempt
                         ELSE IF last THEN 1 ELSE attempt + 1
           /\ source' = IF ~done /\ last /\ source < NumSources
                        THEN source + 1 ELSE source
    /\ UNCHANGED <<call, variant, force_update>>

\* script 325-373, service 295-353: the local file as a last resort, then the
\* two lists are emptied
LocalFallback(readable) ==
    /\ dl_pc = "local"
    /\ IF local_file # <<>> /\ readable /\ Usable(local_file[1])
       THEN /\ satellites' = TempSatellites(local_file[1])
            /\ raw_tle_data' = TempRawTle(local_file[1])
       ELSE /\ satellites' = <<>>
            /\ raw_tle_data' = <<>>
    /\ dl_pc' = "returned"
    /\ UNCHANGED <<call, variant, force_update, source, attempt, n_requests, local_file>>

NextDownload ==
    \/ \E readable \in BOOLEAN : DownloadBegin(readable)
    \/ \E response \in Responses, saved \in BOOLEAN : Attempt(response, saved)
    \/ \E readable \in BOOLEAN : LocalFallback(readable)

SpecDownload == InitDownload /\ [][NextDownload]_vars

(***************************************************************************)
(* What a call with concurrency degree 1 returns for the inputs of the     *)
(* current call: lines 409-411 and 457-487 as a function of the inputs.    *)
(***************************************************************************)
Grid ==
    IF interval_minutes = 0 THEN <<>>
    ELSE TimeDataTuples(start_time_dt, interval_minutes, analysis_duration_minutes)

RECURSIVE SequentialResults(_)
SequentialResults(k) ==
    IF k = 0 THEN <<>>
    ELSE IF k \in worker_fault
         THEN SequentialResults(k - 1)
         ELSE Append(SequentialResults(k - 1),
                     process_time_point_worker(Grid[k], raw_tle_data,
                                               min_elevation_threshold))

SequentialSeries ==
    IF satellites = <<>> THEN <<>> ELSE CoverageDf(SequentialResults(Len(Grid)))

Samples == {results[i] : i \in DOMAIN results} \cup {series[i] : i \in DOMAIN series}

RecordNames(s) == {s.visible_satellites[j].name : j \in DOMAIN s.visible_satellites}

RecordElevations(s) == {s.visible_satellites[j].elevation : j \in DOMAIN s.visible_satellites}

MaxOf(S) == CHOOSE m \in S : \A x \in S : x <= m

(***************************************************************************)
(* Claims.                                                                 *)
(***************************************************************************)

\* C1: for the same catalog, grid and threshold, a call with degree P > 1
\* returns, whatever the completion order of its tasks, the series a call with
\* degree 1 returns (same timestamps in the same order, same counts, best
\* satellites and records).
C1_ParallelEqualsSequential ==
    (pc = "done" /\ degree >= 1) => series = SequentialSeries

\* C2: adjacent samples of a returned series have strictly increasing
\* timestamps, for every degree, completion order and positive interval.
C2_StrictlyIncreasing ==
    pc = "done" =>
        \A i \in 1..(Len(series) - 1) : series[i].timestamp < series[i + 1].timestamp

\* C3: the returned series has one sample per grid point; a grid instant whose
\* computation fails is present as an empty sample (count 0, no best satellite).
C3_OneSamplePerGridPoint ==
    (pc = "done" /\ degree >= 1 /\ satellites # <<>> /\ pool_event = "none") =>
        /\ Len(series) = Len(Grid)
        /\ \A i \in worker_fault :
              /\ series[i].visible_count = 0
              /\ series[i].best_satellite = NoSatellite

\* C4: whenever the pool fails to initialise or to execute (creation raises,
\* submission raises, the worker processes die), the call falls back to the
\* sequential pass and returns the sequentially computed series.
C4_PoolFailureFallsBack ==
    (pc = "done" /\ pool_event # "none") =>
        /\ fallbacks = 1
        /\ series = SequentialSeries

\* C5: the fallback runs at most once per call, it leaves no result of the
\* aborted parallel attempt in the result list, and the series returned after
\* it is the one the sequential pass computes: no grid instant appears twice.
C5_FallbackDiscardsPartials ==
    /\ fallbacks <= 1
    /\ (fallbacks = 1 /\ pc = "single") => results = <<>>
    /\ (fallbacks = 1 /\ pc = "sequential") => results = SequentialResults(seq_i - 1)
    /\ (fallbacks = 1 /\ pc = "done") =>
          /\ series = SequentialSeries
          /\ Len(series) <= Len(Grid)

C5_Witness ==
    /\ pc = "done"
    /\ fallbacks = 1
    /\ discarded >= 2
    /\ Len(series) >= 2

\* C6: a call returns either a sample for each of the N grid points or the
\* empty series, never samples for only some of the grid points.
C6_AllOrNothing ==
    pc = "done" => Len(series) \in {0, Len(Grid)}

\* C7: in every sample the worker produces, a non-empty record list has its
\* best satellite among the records and the sample's elevation is the maximum
\* elevation of the records; the best satellite is None iff the list is empty.
C7_BestCorrect ==
    \A s \in Samples :
        /\ (s.best_satellite = NoSatellite) <=> (s.visible_satellites = <<>>)
        /\ s.visible_satellites # <<>> =>
              /\ s.best_satellite \in RecordNames(s)
              /\ s.elevation = MaxOf(RecordElevations(s))

\* C8: in every sample, visible_count is the number of visible-satellite
\* records of the sample, whichever satellites failed to be built or evaluated.
C8_CountConsistency ==
    \A s \in Samples : s.visible_count = Len(s.visible_satellites)

C8_Witness ==
    /\ pc = "done"
    /\ Len(series) = 1
    /\ series[1].visible_count = 1
    /\ \E k \in DOMAIN raw_tle_data : ~raw_tle_data[k].line_ok
    /\ \E k \in DOMAIN raw_tle_data : raw_tle_data[k].diverges

\* C9: a satellite is in the records of a sample iff its element set was
\* accepted, its evaluation at the instant succeeded and its elevation is
\* strictly greater than the threshold.
C9_RecordIffAboveThreshold ==
    \A s \in {results[i] : i \in DOMAIN results} :
        \A k \in DOMAIN raw_tle_data :
            LET tle == raw_tle_data[k]
            IN  (tle.name \in RecordNames(s)) <=>
                    /\ tle.line_ok
                    /\ ~tle.diverges
                    /\ tle.e0 + tle.rate * s.timestamp > min_elevation_threshold

C9_Witness ==
    /\ Len(results) = 1
    /\ Len(raw_tle_data) = 3
    /\ RecordNames(results[1]) = {2}
    /\ raw_tle_data[1].line_ok /\ ~raw_tle_data[1].diverges
    /\ raw_tle_data[1].e0 = min_elevation_threshold
    /\ raw_tle_data[3].diverges

\* C10: when two or more visible satellites share the maximum elevation of an
\* instant, the best satellite is the first of them in catalog order, in the
\* sequential and in the parallel strategy.
C10_TieFirstInCatalog ==
    \A s \in Samples :
        LET top == {j \in DOMAIN s.visible_satellites :
                      s.visible_satellites[j].elevation = MaxOf(RecordElevations(s))}
        IN  Cardinality(top) >= 2 =>
               s.best_satellite =
                  s.visible_satellites[CHOOSE j \in top : \A h \in top : j <= h].name

Returned == pc \in {"done", "stats"}

CoveredSamples == {i \in DOMAIN series : series[i].visible_satellites # <<>>}

Failing(tle) == ~tle.line_ok \/ tle.diverges

\* C11: for a positive interval and a positive duration the grid has exactly
\* N = floor(duration / interval) points, point i (from 0) is start +
\* i * interval, there is no partial trailing point, and consecutive points
\* are strictly increasing with the fixed spacing.
C11_GridExact ==
    (pc \notin {"idle", "raised"} /\ satellites # <<>>
       /\ interval_minutes > 0 /\ analysis_duration_minutes > 0) =>
        LET n == Len(time_data_tuples)
        IN  /\ n * interval_minutes <= analysis_duration_minutes
            /\ analysis_duration_minutes < (n + 1) * interval_minutes
            /\ \A i \in 1..n :
                  time_data_tuples[i][2] = start_time_dt + (i - 1) * interval_minutes
            /\ \A i \in 1..(n - 1) :
                  /\ time_data_tuples[i][2] < time_data_tuples[i + 1][2]
                  /\ time_data_tuples[i + 1][2] - time_data_tuples[i][2] = interval_minutes

C11_Witness ==
    /\ pc \notin {"idle", "raised"}
    /\ interval_minutes = 2
    /\ analysis_duration_minutes = 3
    /\ Len(time_data_tuples) = 1

\* C12: a call with interval <= 0 or duration <= 0 is rejected with
\* InvalidWindow before any grid point is evaluated and never returns a
\* series.
C12_InvalidWindowRejected ==
    (pc # "idle" /\ (interval_minutes <= 0 \/ analysis_duration_minutes <= 0)) =>
        /\ pc = "raised"
        /\ exception = "InvalidWindow"
        /\ time_data_tuples = <<>>
        /\ results = <<>>

C15_EmptySeriesZeroStats ==
    (pc = "stats" /\ series = <<>>) =>
        /\ ~stats[1].raised
        /\ RatEq(stats[1].avg_visible_satellites, Rat(0, 1))
        /\ stats[1].max_visible_satellites = 0
        /\ stats[1].min_visible_satellites = 0
        /\ RatEq(stats[1].avg_elevation, Rat(0, 1))
        /\ stats[1].max_elevation = 0
        /\ RatEq(stats[1].coverage_percentage, Rat(0, 1))

C15_Witness ==
    /\ pc = "stats"
    /\ series = <<>>
    /\ satellites # <<>>
    /\ stats # <<>>

\* C16: a satellite whose construction or evaluation fails is left out of
\* the instant and nothing else is: the worker still returns a sample, and
\* every other satellite above the threshold is recorded in it.
C16_FailureIsolated ==
    /\ \A s \in Samples :
          \A k \in DOMAIN raw_tle_data :
             LET tle == raw_tle_data[k]
             IN  /\ Failing(tle) => tle.name \notin RecordNames(s)
                 /\ (~Failing(tle)
                      /\ tle.e0 + tle.rate * s.timestamp > min_elevation_threshold)
                        => tle.name \in RecordNames(s)
    /\ (pc = "sequential" /\ \E k \in DOMAIN raw_tle_data : Failing(raw_tle_data[k]))
          => Len(results) = seq_i - 1
    /\ (pc = "finish" /\ num_cpus = 1
          /\ \E k \in DOMAIN raw_tle_data : Failing(raw_tle_data[k]))
          => Len(results) = Len(time_data_tuples)

C16_Witness ==
    /\ pc = "finish"
    /\ Len(results) = 1
    /\ Len(raw_tle_data) = 3
    /\ ~raw_tle_data[1].line_ok
    /\ raw_tle_data[2].diverges
    /\ ~Failing(raw_tle_data[3])
    /\ RecordNames(results[1]) = {raw_tle_data[3].name}

\* the series the inputs of the call determine
DeterminedSeries ==
    IF degree < 1 THEN <<>> ELSE SequentialSeries

\* C17: two runs with identical inputs return identical series, whatever
\* the completion order or the scheduling of the worker tasks: the series a
\* run returns is the one its inputs determine.
C17_Deterministic ==
    Returned => series = DeterminedSeries

Alive == {t \in 1..MaxRequests : threads[t].pc \notin {"none", "ended"}}

\* thread t is between line 65 and the end of its finally block
InRun(t) == threads[t].pc \in {"popen", "read", "except", "finally"}

Handled == {r \in 1..MaxRequests : requests[r].state = "responded"}

\* C18: while an accepted analysis has not finished, every further POST
\* /start_analysis is answered 400 "analysis already running" and starts
\* nothing, so at most one analysis thread exists at any time.
C18_AtMostOneThread ==
    /\ [](Cardinality(Alive) <= 1)
    /\ [][\A r \in 1..MaxRequests :
            (Alive # {} /\ requests[r].state = "new"
               /\ requests'[r].state = "responded") =>
                 /\ requests'[r].code = 400
                 /\ requests'[r].message = MsgAlreadyRunning
                 /\ threads' = threads]_vars

\* C19: with no analysis running, a duration that cannot be converted to an
\* integer is answered 400 "invalid analysis time" and an integer outside
\* 5..240 is answered 400 "analysis time must be 5 to 240"; in both cases no
\* thread is started.
C19_InvalidDurationRejected ==
    \A r \in Handled :
        LET d == requests[r].duration
        IN  ~requests[r].saw_running =>
              /\ d.kind \in {"text", "null"} =>
                    /\ requests[r].code = 400
                    /\ requests[r].message = MsgInvalidDuration
                    /\ threads[r].pc = "none"
              /\ (d.kind = "int" /\ (d.value < 5 \/ d.value > 240)) =>
                    /\ requests[r].code = 400
                    /\ requests[r].message = MsgDurationRange
                    /\ threads[r].pc = "none"

\* C20: with no analysis running, a POST with a valid duration is answered
\* 200 "analysis started" and starts the run; from the moment the run has
\* set it, running stays True until that run ends.
C20_RunningUntilRunEnds ==
    /\ \A r \in Handled :
          LET d == requests[r].duration
          IN  (~requests[r].saw_running
               /\ (d.kind = "missing" \/ (d.kind = "int" /\ d.value \in 5..240))) =>
                 /\ requests[r].code = 200
                 /\ requests[r].message = MsgStarted
                 /\ threads[r].pc # "none"
    /\ \A t \in 1..MaxRequests : InRun(t) => analysis_status.running

\* C27: during one run the published progress never decreases between the
\* reset to 0 at the start of the thread and the end of the run, and stays
\* within 0..100.
C27_ProgressMonotone ==
    /\ [](analysis_status.progress \in 0..100)
    /\ [][\A t \in 1..MaxRequests :
            InRun(t) => analysis_status'.progress >= analysis_status.progress]_vars

\* C21: running is False before any run, and every accepted run eventually
\* ends with running False and last_run_time set, whatever the outcome and
\* however much the child writes to its stdout and stderr pipes.
C21_RunEventuallyEnds ==
    /\ analysis_status.running = FALSE
    /\ \A t \in 1..MaxRequests :
          (threads[t].pc = "start") ~>
              (/\ threads[t].pc = "ended"
               /\ ~analysis_status.running
               /\ analysis_status.last_run_time = 1)

\* C22: for every integer degree passed as num_cpus, 0 and negative values
\* included, the call evaluates every grid instant by one of its two
\* strategies and returns the series it returns for degree 1.
C22_EveryDegree ==
    (pc = "done" /\ pool_event = "none") =>
        /\ series = SequentialSeries
        /\ (satellites # <<>> /\ worker_fault = {}) => Len(results) = Len(Grid)

WithBest == SelectSeq(series, LAMBDA s : s.best_satellite # NoSatellite)

BestElevations == [i \in DOMAIN WithBest |-> WithBest[i].elevation]

\* C23: avg_elevation and max_elevation are the mean and the maximum of the
\* best satellite's elevation over the samples that have a best satellite; a
\* sample without one contributes nothing, and both are 0 when no sample has
\* a best satellite.
C23_ElevationOverBest ==
    pc = "stats" =>
        IF WithBest = <<>>
        THEN /\ RatEq(stats[1].avg_elevation, Rat(0, 1))
             /\ stats[1].max_elevation = 0
        ELSE /\ stats[1].avg_elevation.den # 0
             /\ RatEq(stats[1].avg_elevation, Mean(BestElevations))
             /\ stats[1].max_elevation = MaxSeq(BestElevations)

\* C24: in the parallel strategy the sort by timestamp runs only after every
\* submitted task has completed (returned or raised) and the pool has shut
\* down, and no result is appended to the result list after the sort.
C24_SortAfterJoin ==
    /\ [](pc = "sort" =>
            /\ Len(futures) = Len(time_data_tuples)
            /\ \A i \in DOMAIN futures : futures[i] # "pending"
            /\ collected = DOMAIN futures)
    /\ [][(pc \in {"single", "finish", "done", "stats"} /\ num_cpus > 1)
             => results' = results]_vars

C24_Witness ==
    /\ pc = "finish"
    /\ num_cpus > 1
    /\ Len(futures) = 3
    /\ \E i \in DOMAIN futures : futures[i] = "raised"
    /\ Len(results) = 2

\* C25: a call (parallel, sequential, or parallel followed by the fallback)
\* leaves the catalog (raw_tle_data and satellites) and the observer
\* unchanged, and no grid-instant task modifies the catalog or the observer
\* it receives.
C25_CatalogAndObserverUnchanged ==
    [][/\ raw_tle_data' = raw_tle_data
       /\ satellites' = satellites
       /\ observer' = observer]_vars

C25_Witness ==
    /\ pc = "done"
    /\ fallbacks = 1
    /\ \E k \in DOMAIN raw_tle_data : ~raw_tle_data[k].line_ok
    /\ Len(series) = 1

\* C26: provided every grid-instant task terminates, the call terminates for
\* every degree and every finite grid, also when the parallel attempt fails
\* and the call falls back to the sequential pass.
C26_Terminates ==
    (interval_minutes # 0 \/ satellites = <<>>) => <>(pc = "done")

C26_Witness ==
    /\ pc = "done"
    /\ fallbacks = 1
    /\ worker_fault # {}
    /\ Len(time_data_tuples) = 4

\* C28: after download_tle_data returns, by any path, satellites and
\* raw_tle_data have the same length and correspond entry by entry, and that
\* length is 0 or at least 100: a source or file that parses to fewer than
\* 100 satellites never becomes the catalog.
C28_CatalogConsistent ==
    dl_pc = "returned" =>
        /\ Len(satellites) = Len(raw_tle_data)
        /\ \A k \in DOMAIN satellites : raw_tle_data[k].name = satellites[k]
        /\ Len(satellites) = 0 \/ Len(satellites) >= 100

C28_Witness ==
    /\ dl_pc = "returned"
    /\ n_requests = 2
    /\ Len(satellites) = 100
    /\ local_file # <<>>
    /\ Len(local_file[1]) = 101

\* C30: in the service the sources are tried in list order with at most 3
\* attempts each (at most 9 requests); the first attempt that parses at
\* least 100 satellites ends the procedure with no further request; the
\* local file is read only after every attempt on every source has failed.
C30_RetryDiscipline ==
    /\ [](variant = "service" =>
            /\ n_requests <= 9
            /\ dl_pc = "network" => n_requests = 3 * (source - 1) + (attempt - 1)
            /\ dl_pc = "local" => n_requests = 9)
    /\ [][(variant = "service" /\ n_requests' = n_requests + 1
            /\ Len(satellites') >= 100 /\ satellites' # satellites)
             => dl_pc' = "returned"]_vars

\* C29: when a run ends, analysis_status records its outcome: after exit
\* code 0, last_run_success is True, progress is 100 and output_files is
\* non-empty; after a non-zero exit code or an exception in the thread,
\* last_run_success is False and error_message holds the error text; in
\* every case running is False.
C29_OutcomeRecorded ==
    [][\A t \in 1..MaxRequests :
          (threads[t].pc = "finally" /\ threads'[t].pc = "ended") =>
              /\ analysis_status'.running = FALSE
              /\ threads[t].outcome = "exit 0" =>
                    /\ analysis_status'.last_run_success = TRUE
                    /\ analysis_status'.progress = 100
                    /\ analysis_status'.output_files # <<>>
              /\ threads[t].outcome \in {"exit non-zero", "raised"} =>
                    /\ analysis_status'.last_run_success = FALSE
                    /\ analysis_status'.error_message # ""]_vars

====
